---------------------------- MODULE Spec2Model ----------------------------
(***************************************************************************)
(* A model of the proof-of-contribution pipeline of my_proof:              *)
(*   my_proof/__main__.py          run()                                   *)
(*   my_proof/proof.py             Proof.generate and the four scorers     *)
(*   my_proof/filebase_service.py  FilebaseService (the hash registry)     *)
(*                                                                         *)
(* Several runs of the program (one process each) share one remote object, *)
(* the registry document hash_list.json.  Every run is Proof.generate from *)
(* its first line to its return or to the exception that ends the process. *)
(*                                                                         *)
(* Conventions.                                                            *)
(*  - A Python value is a record tagged by `py`: None, int, str.  A str    *)
(*    holds its characters as a tuple of one-character strings.            *)
(*  - A Python dict is a TLA+ record; a key the dict lacks is a field the  *)
(*    record lacks.                                                        *)
(*  - Scores are exact thousandths: 1000 stands for the float 1.0.         *)
(*  - SHA-256 and HMAC-SHA256 are ideal: a digest is the term built from   *)
(*    its arguments, so two digests agree exactly when their inputs do.    *)
(***************************************************************************)
EXTENDS Integers, Sequences, FiniteSets, TLC

(***************************************************************************)
(* Bounds of the model.                                                    *)
(***************************************************************************)
MaxRuns == 3
MaxMsgs == 3
MaxFiles == 2
MaxLong == 12

(***************************************************************************)
(* Python values.                                                          *)
(***************************************************************************)
PyNone == [py |-> "None"]
PyInt(n) == [py |-> "int", v |-> n]
PyStrOf(chars) == [py |-> "str", v |-> chars]

\* bool(v): None, 0 and '' are falsy.
Truthy(v) ==
  CASE v.py = "None" -> FALSE
    [] v.py = "int" -> v.v # 0
    [] v.py = "str" -> v.v # <<>>

\* dict.get(key, default)
DictGet(d, key, default) == IF key \in DOMAIN d THEN d[key] ELSE default

DigitChars == <<"0", "1", "2", "3", "4", "5", "6", "7", "8", "9">>

RECURSIVE IntChars(_)
\* str(n) for an int n >= 0: its decimal digits.
IntChars(n) ==
  IF n < 10 THEN <<DigitChars[n + 1]>>
  ELSE IntChars(n \div 10) \o <<DigitChars[(n % 10) + 1]>>

TwoDigits(n) == <<DigitChars[(n \div 10) + 1], DigitChars[(n % 10) + 1]>>

NoneChars == <<"N", "o", "n", "e">>

\* str(v) / repr(v) of a Python value inside a container: a str is quoted.
PyRepr(v) ==
  CASE v.py = "None" -> NoneChars
    [] v.py = "int" -> IntChars(v.v)
    [] v.py = "str" -> <<"'">> \o v.v \o <<"'">>

\* str(v) of a Python value at top level: a str is itself.
PyStr(v) ==
  CASE v.py = "None" -> NoneChars
    [] v.py = "int" -> IntChars(v.v)
    [] v.py = "str" -> v.v

\* needle in haystack, for two character sequences (Python's `in` on str).
IsSubstring(needle, hay) ==
  \E i \in 0..(Len(hay) - Len(needle)) :
    \A j \in 1..Len(needle) : hay[i + j] = needle[j]

(***************************************************************************)
(* str(input): Python's rendering of the parsed record.  Keys are rendered *)
(* in the order of the file: type, messages; text, date,                   *)
(* reply_to_message_id.  A key with its quotes and colon is one element of *)
(* the sequence (no needle of the model, digits or None, occurs in a key); *)
(* every value is rendered character by character.                         *)
(***************************************************************************)
RECURSIVE JoinItems(_)
JoinItems(items) ==
  IF items = <<>> THEN <<>>
  ELSE IF Len(items) = 1 THEN items[1]
  ELSE items[1] \o <<", ">> \o JoinItems(Tail(items))

MsgKeys == <<"text", "date", "reply_to_message_id">>
RecordKeys == <<"type", "messages">>

ReprMessage(msg) ==
  LET present == SelectSeq(MsgKeys, LAMBDA k : k \in DOMAIN msg)
      items == [i \in 1..Len(present) |->
                  <<"'" \o present[i] \o "': ">> \o PyRepr(msg[present[i]])]
  IN <<"{">> \o JoinItems(items) \o <<"}">>

ReprMessages(msgs) ==
  <<"[">> \o JoinItems([i \in 1..Len(msgs) |-> ReprMessage(msgs[i])]) \o <<"]">>

StrInput(input) ==
  LET present == SelectSeq(RecordKeys, LAMBDA k : k \in DOMAIN input)
      items == [i \in 1..Len(present) |->
                  <<"'" \o present[i] \o "': ">> \o
                  (IF present[i] = "messages" THEN ReprMessages(input.messages)
                   ELSE PyRepr(input[present[i]]))]
  IN <<"{">> \o JoinItems(items) \o <<"}">>

(***************************************************************************)
(* FilebaseService: the registry object is either missing from the bucket  *)
(* or holds a JSON document.                                               *)
(***************************************************************************)
\* The bucket holds no object under the key hash_list.json.
NoObject == [exists |-> FALSE]
\* The bucket holds the JSON document doc under the key.
Object(doc) == [exists |-> TRUE, body |-> doc]

\* hashlib.sha256(str(input).encode()).hexdigest()
generate_hash(input) == [alg |-> "sha256", of |-> StrInput(input)]

\* s3_client.get_object: a missing key is the store's NoSuchKey error, and any
\* call can fail in transport (down = TRUE).  The except clause logs and
\* re-raises.  Otherwise json.loads(...).get('hash_list', []).
\* data['hash_list'] in place of data.get('hash_list', []).
GetHashListStrict(object, down) ==
  IF down THEN [raised |-> TRUE, error |-> "EndpointConnectionError"]
  ELSE IF ~object.exists THEN [raised |-> TRUE, error |-> "NoSuchKey"]
  ELSE IF "hash_list" \notin DOMAIN object.body
  THEN [raised |-> TRUE, error |-> "KeyError"]
  ELSE [raised |-> FALSE, value |-> object.body.hash_list]

get_hash_list(object, down) ==
  IF down THEN [raised |-> TRUE, error |-> "EndpointConnectionError"]
  ELSE IF ~object.exists THEN [raised |-> TRUE, error |-> "NoSuchKey"]
  ELSE [raised |-> FALSE, value |-> DictGet(object.body, "hash_list", <<>>)]

\* The document a run puts without re-reading the registry; it replaces the
\* stored object whole.
PutFirstOnly(existing_hashes, new_hash) == Object([hash_list |-> <<new_hash>>])
PutNothingNew(existing_hashes, new_hash) == Object([hash_list |-> existing_hashes])

\* data = {'hash_list': existing_hashes + [new_hash]}; put_object(Body=data)
update_hash_list(existing_hashes, new_hash) ==
  Object([hash_list |-> Append(existing_hashes, new_hash)])

\* generated_hash in existing_hashes
InList(h, list) == \E i \in 1..Len(list) : list[i] = h

(***************************************************************************)
(* Exact arithmetic on fractions n/d (d > 0) for the quality formulas.     *)
(***************************************************************************)
RECURSIVE Gcd(_, _)
Gcd(a, b) == IF b = 0 THEN a ELSE Gcd(b, a % b)
Abs(a) == IF a < 0 THEN -a ELSE a
\* n/d in lowest terms; 0 is 0/1.
Frac(n, d) ==
  LET g == Gcd(Abs(n), d) IN [n |-> n \div g, d |-> d \div g]
FAdd(a, b) == Frac(a.n * b.d + b.n * a.d, a.d * b.d)
FScale(k, m, a) == Frac(k * a.n, m * a.d)
FMin1(a) == IF a.n >= a.d THEN Frac(1, 1) ELSE a
FOneMinus(a) == Frac(a.d - a.n, a.d)

\* round(x, 3) as thousandths, ties to even.
Round3(a) ==
  LET q == (1000 * a.n) \div a.d
      r == (1000 * a.n) - q * a.d
  IN IF 2 * r < a.d THEN q
     ELSE IF 2 * r > a.d THEN q + 1
     ELSE IF q % 2 = 0 THEN q ELSE q + 1

(***************************************************************************)
(* datetime.strptime(s, "%Y-%m-%dT%H:%M:%S") on a zero-padded string.      *)
(***************************************************************************)
IsDigit(c) == \E i \in 1..10 : DigitChars[i] = c
DigitVal(c) == (CHOOSE i \in 1..10 : DigitChars[i] = c) - 1
Num2(s, i) == 10 * DigitVal(s[i]) + DigitVal(s[i + 1])
Num4(s, i) == 100 * Num2(s, i) + Num2(s, i + 2)

IsLeap(y) == (y % 4 = 0) /\ ((y % 100 # 0) \/ (y % 400 = 0))
DaysInMonth(y, m) ==
  IF m = 2 THEN (IF IsLeap(y) THEN 29 ELSE 28)
  ELSE IF m \in {4, 6, 9, 11} THEN 30 ELSE 31

RECURSIVE DaysBeforeMonth(_, _)
DaysBeforeMonth(y, m) ==
  IF m = 1 THEN 0 ELSE DaysBeforeMonth(y, m - 1) + DaysInMonth(y, m - 1)

\* date.toordinal(): days since 0001-01-01, that day being 1.
Ordinal(y, m, d) ==
  365 * (y - 1) + ((y - 1) \div 4) - ((y - 1) \div 100) + ((y - 1) \div 400)
    + DaysBeforeMonth(y, m) + d

WellFormedDate(s) ==
  /\ Len(s) = 19
  /\ \A i \in {1, 2, 3, 4, 6, 7, 9, 10, 12, 13, 15, 16, 18, 19} : IsDigit(s[i])
  /\ s[5] = "-" /\ s[8] = "-" /\ s[11] = "T" /\ s[14] = ":" /\ s[17] = ":"
  /\ Num4(s, 1) >= 1
  /\ Num2(s, 6) \in 1..12
  /\ Num2(s, 9) \in 1..DaysInMonth(Num4(s, 1), Num2(s, 6))
  /\ Num2(s, 12) \in 0..23
  /\ Num2(s, 15) \in 0..59
  /\ Num2(s, 18) \in 0..61

\* The parse of msg["date"]: a missing key (KeyError), a value that is no str
\* (TypeError) and a string the format rejects (ValueError) all raise.  The
\* datetime is kept as its day number and the second of that day.
strptime(msg) ==
  IF "date" \notin DOMAIN msg THEN [raised |-> TRUE]
  ELSE IF msg.date.py # "str" THEN [raised |-> TRUE]
  ELSE IF ~WellFormedDate(msg.date.v) THEN [raised |-> TRUE]
  ELSE LET s == msg.date.v
       IN [raised |-> FALSE,
           day |-> Ordinal(Num4(s, 1), Num2(s, 6), Num2(s, 9)),
           second |-> 3600 * Num2(s, 12) + 60 * Num2(s, 15) + Num2(s, 18)]

\* (current_date - prev_date).total_seconds()
total_seconds(current_date, prev_date) ==
  86400 * (current_date.day - prev_date.day)
    + (current_date.second - prev_date.second)

(***************************************************************************)
(* Proof.calc_quality                                                      *)
(***************************************************************************)
NoDate == [set |-> FALSE]

\* One pass of the loop body with a fault: a failed parse forgets the cursor.
ScanStepForgetful(acc, msg) ==
  LET parsed == strptime(msg)
      gap == ~parsed.raised /\ acc.prev_date.set
               /\ total_seconds(parsed, acc.prev_date) > 86400
  IN [stats |->
        [total_messages |-> acc.stats.total_messages,
         empty_messages |-> acc.stats.empty_messages
            + (IF ~Truthy(DictGet(msg, "text", PyNone)) THEN 1 ELSE 0),
         invalid_dates |-> acc.stats.invalid_dates
            + (IF parsed.raised THEN 1 ELSE 0),
         large_gaps |-> acc.stats.large_gaps + (IF gap THEN 1 ELSE 0),
         replies |-> acc.stats.replies
            + (IF Truthy(DictGet(msg, "reply_to_message_id", PyNone)) THEN 1 ELSE 0)],
      prev_date |->
        IF parsed.raised THEN NoDate
        ELSE [set |-> TRUE, day |-> parsed.day, second |-> parsed.second]]

\* One pass of the loop body (proof.py 97-113).
ScanStep(acc, msg) ==
  LET parsed == strptime(msg)
      gap == ~parsed.raised /\ acc.prev_date.set
               /\ total_seconds(parsed, acc.prev_date) > 86400
  IN [stats |->
        [total_messages |-> acc.stats.total_messages,
         empty_messages |-> acc.stats.empty_messages
            + (IF ~Truthy(DictGet(msg, "text", PyNone)) THEN 1 ELSE 0),
         invalid_dates |-> acc.stats.invalid_dates
            + (IF parsed.raised THEN 1 ELSE 0),
         large_gaps |-> acc.stats.large_gaps + (IF gap THEN 1 ELSE 0),
         replies |-> acc.stats.replies
            + (IF Truthy(DictGet(msg, "reply_to_message_id", PyNone)) THEN 1 ELSE 0)],
      prev_date |->
        IF parsed.raised THEN acc.prev_date
        ELSE [set |-> TRUE, day |-> parsed.day, second |-> parsed.second]]

RECURSIVE ScanFrom(_, _, _)
ScanFrom(acc, msgs, i) ==
  IF i > Len(msgs) THEN acc ELSE ScanFrom(ScanStep(acc, msgs[i]), msgs, i + 1)

\* The stats dict after the loop.
ScanMessages(msgs) ==
  ScanFrom([stats |-> [total_messages |-> Len(msgs), empty_messages |-> 0,
                       invalid_dates |-> 0, large_gaps |-> 0, replies |-> 0],
            prev_date |-> NoDate], msgs, 1).stats

\* 1 - empty_messages / total_messages
ContentScore(stats) ==
  FOneMinus(Frac(stats.empty_messages, stats.total_messages))

\* 1 - min(1, large_gaps * 0.1 + invalid_dates / total_messages)
TimeScore(stats) ==
  FOneMinus(FMin1(FAdd(Frac(stats.large_gaps, 10),
                       Frac(stats.invalid_dates, stats.total_messages))))

\* replies / (total_messages * 0.3), the cap forgotten
InteractionUncapped(stats) == Frac(10 * stats.replies, 3 * stats.total_messages)

\* min(1, replies / (total_messages * 0.3))
InteractionScore(stats) ==
  FMin1(Frac(10 * stats.replies, 3 * stats.total_messages))

Zero == Frac(0, 1)

calc_quality(input) ==
  LET stats == ScanMessages(DictGet(input, "messages", <<>>))
      scores ==
        IF stats.total_messages = 0
        THEN [content |-> Zero, time |-> Zero, interaction |-> Zero]
        ELSE [content |-> ContentScore(stats), time |-> TimeScore(stats),
              interaction |-> InteractionScore(stats)]
      quality_score ==
        FAdd(FAdd(FScale(8, 10, scores.content), FScale(1, 10, scores.time)),
             FScale(1, 10, scores.interaction))
  IN [quality_score |-> Round3(quality_score),
      component_scores |-> [content |-> Round3(scores.content),
                            time |-> Round3(scores.time),
                            interaction |-> Round3(scores.interaction)],
      stats |-> stats]

(***************************************************************************)
(* Proof.calc_authenticity                                                 *)
(***************************************************************************)
PersonalChat == PyStrOf(<<"p", "e", "r", "s", "o", "n", "a", "l", "_", "c", "h", "a", "t">>)
AiChat == PyStrOf(<<"a", "i", "_", "c", "h", "a", "t">>)
GroupChat == PyStrOf(<<"g", "r", "o", "u", "p">>)

calc_authenticity(input) ==
  IF DictGet(input, "type", PyStrOf(<<>>)) \in {PersonalChat, AiChat}
  THEN 1000 ELSE 0

(***************************************************************************)
(* Proof.calc_ownership.  The init data is a query string; the model keeps *)
(* it as its `name=value` pieces in order, percent-decoding done.  A value *)
(* is a piece of text or, for `hash`, the hex digest somebody computed.    *)
(***************************************************************************)
Text(s) == [text |-> s]
Field(name, value) == [name |-> name, value |-> value]
QueryString(fields) == [py |-> "str", fields |-> fields]

\* hmac.new(key, msg, hashlib.sha256)
Hmac(key, msg) == [alg |-> "hmac-sha256", key |-> key, msg |-> msg]

\* dict(parse_qsl(qs)): None and '' give no pairs, keep_blank_values is off
\* so a piece with an empty value is dropped, and a later piece of the same
\* name replaces an earlier one.
RECURSIVE DictOfFields(_, _)
DictOfFields(fields, i) ==
  IF i = 0 THEN [k \in {} |-> Text("")]
  ELSE LET rest == DictOfFields(fields, i - 1)
           f == fields[i]
       IN IF f.value = Text("") THEN rest
          ELSE [k \in DOMAIN rest \cup {f.name} |->
                  IF k = f.name THEN f.value ELSE rest[k]]

parse_qsl_dict(tg_init_data) ==
  IF tg_init_data.py = "None" THEN [k \in {} |-> Text("")]
  ELSE DictOfFields(tg_init_data.fields, Len(tg_init_data.fields))

\* The field names of the protocol in sorted() order.
SortedNames == <<"auth_date", "hash", "query_id", "user">>

\* '\n'.join(f"{k}={v}" for k, v in sorted(parsed_data.items()) if k != 'hash'),
\* kept as the sequence of its lines.
DataCheckString(parsed_data) ==
  LET names == SelectSeq(SortedNames,
                         LAMBDA k : k \in DOMAIN parsed_data /\ k # "hash")
  IN [i \in 1..Len(names) |-> <<names[i], parsed_data[names[i]]>>]

\* json.loads on the user values of the model.
JsonUser42 == "{\"id\": 42}"
JsonUser7 == "{\"id\": 7}"
JsonUserNoId == "{\"first_name\": \"A\"}"
JsonUserNullId == "{\"id\": null}"
JsonNumber == "42"
JsonNull == "null"
NotJson == "id=42"

json_loads(text) ==
  CASE text = JsonUser42 -> [raised |-> FALSE, type |-> "dict", value |-> [id |-> PyInt(42)]]
    [] text = JsonUser7 -> [raised |-> FALSE, type |-> "dict", value |-> [id |-> PyInt(7)]]
    [] text = JsonUserNoId ->
         [raised |-> FALSE, type |-> "dict",
          value |-> [first_name |-> PyStrOf(<<"A">>)]]
    [] text = JsonUserNullId -> [raised |-> FALSE, type |-> "dict", value |-> [id |-> PyNone]]
    [] text = JsonNumber -> [raised |-> FALSE, type |-> "int", value |-> PyInt(42)]
    [] text = JsonNull -> [raised |-> FALSE, type |-> "NoneType", value |-> PyNone]
    [] OTHER -> [raised |-> TRUE, error |-> "JSONDecodeError"]

Return(v) == [raised |-> FALSE, value |-> v]
Raise(e) == [raised |-> TRUE, error |-> e]

calc_ownership(config, input) ==
  LET parsed_data == parse_qsl_dict(config.tg_init_data)
      data_check_string == DataCheckString(parsed_data)
      secret_key == Hmac("WebAppData", config.telegram_bot_access_key.v)
      h == Hmac(secret_key, data_check_string)
      user_info == DictGet(parsed_data, "user", Text(""))
      loaded == json_loads(user_info.text)
  IN \* None.encode()
     IF config.telegram_bot_access_key.py = "None" THEN Raise("AttributeError")
     ELSE IF h # DictGet(parsed_data, "hash", Text("")) THEN Return(0)
     ELSE IF user_info = Text("") THEN Return(0)
     ELSE IF loaded.raised THEN Raise(loaded.error)
     \* .get of an int or of None
     ELSE IF loaded.type # "dict" THEN Raise("AttributeError")
     ELSE IF IsSubstring(PyStr(DictGet(loaded.value, "id", PyNone)), StrInput(input))
          THEN Return(1000) ELSE Return(0)


(***************************************************************************)
(* The state: the shared registry object and, per run, the locals of       *)
(* run() and Proof.generate.                                               *)
(***************************************************************************)
VARIABLES
  registry,         \* the object vchars/hash_list.json of the remote store
  version,          \* history: how many put_object calls have succeeded
  serial,           \* TRUE when the runs are launched one after another
  pc,               \* where each run is
  config,           \* load_config(): the bot key and the init data
  input_dir,        \* os.listdir(input_dir) with each file's content
  input_data,       \* generate's input_data
  generated_hash,   \* calc_uniqueness's generated_hash
  existing_hashes,  \* calc_uniqueness's existing_hashes
  proof_response,   \* self.proof_response, field by field
  error,            \* the exception that ended the run
  history           \* per run: what it opened, saw and wrote, and when

vars == <<registry, version, serial, pc, config, input_dir, input_data,
          generated_hash, existing_hashes, proof_response, error, history>>

Runs == 1..MaxRuns

\* The contents a file of the input directory can have.
JsonFile(record) == [kind |-> "json", value |-> record]  \* a JSON object
NullFile == [kind |-> "null"]                            \* the JSON text null
TextFile == [kind |-> "text"]                            \* not JSON
UnreadableFile == [kind |-> "unreadable"]                \* open() or read() fails

\* json.load parses the file (to a dict or to None).
Parses(file) == file.kind \in {"json", "null"}

NoInput == [py |-> "None"]

RECURSIVE LoadFrom(_, _)
\* The for loop of generate from file i on (proof.py 25-36).
LoadFrom(listing, i) ==
  IF i > Len(listing) THEN [raised |-> FALSE, input_data |-> NoInput, opened |-> i - 1]
  ELSE CASE listing[i].kind = "json" ->
              [raised |-> FALSE, input_data |-> listing[i].value, opened |-> i]
         [] listing[i].kind = "null" ->
              [raised |-> FALSE, input_data |-> NoInput, opened |-> i]
         [] listing[i].kind = "text" -> LoadFrom(listing, i + 1)
         [] listing[i].kind = "unreadable" ->
              [raised |-> TRUE, error |-> "OSError", opened |-> i]

NoHistory ==
  [opened |-> 0, observed |-> "nothing", fetched_version |-> 0, put_version |-> 0]

InFlight(r) == pc[r] \in {"loaded", "fetched", "scoring"}

\* run() up to the end of the input loop of generate (__main__.py 33-40,
\* proof.py 22-39).
LoadInput(r) ==
  /\ pc[r] = "start"
  /\ serial => \A q \in Runs : ~InFlight(q)
  /\ LET loaded == LoadFrom(input_dir[r], 1)
         hist == history[r]
     IN IF input_dir[r] = <<>>
        THEN /\ pc' = [pc EXCEPT ![r] = "failed"]
             /\ error' = [error EXCEPT ![r] = "FileNotFoundError"]
             /\ history' = [history EXCEPT ![r] = hist]
             /\ UNCHANGED input_data
        ELSE IF loaded.raised
        THEN /\ pc' = [pc EXCEPT ![r] = "failed"]
             /\ error' = [error EXCEPT ![r] = loaded.error]
             /\ history' = [history EXCEPT ![r] = [hist EXCEPT !.opened = loaded.opened]]
             /\ UNCHANGED input_data
        ELSE IF loaded.input_data = NoInput
        THEN /\ pc' = [pc EXCEPT ![r] = "failed"]
             /\ error' = [error EXCEPT ![r] = "ValueError: No valid JSON files found"]
             /\ history' = [history EXCEPT ![r] = [hist EXCEPT !.opened = loaded.opened]]
             /\ UNCHANGED input_data
        ELSE /\ pc' = [pc EXCEPT ![r] = "loaded"]
             /\ input_data' = [input_data EXCEPT ![r] = loaded.input_data]
             /\ history' = [history EXCEPT ![r] = [hist EXCEPT !.opened = loaded.opened]]
             /\ UNCHANGED error
  /\ UNCHANGED <<registry, version, serial, config, input_dir, generated_hash,
                 existing_hashes, proof_response>>

\* What get_object finds under the key.
Observed(object) ==
  IF ~object.exists THEN "no object"
  ELSE IF "hash_list" \in DOMAIN object.body THEN "hash_list" ELSE "no hash_list"

\* calc_uniqueness up to the fetch (proof.py 72-77).
FetchHashes(r) ==
  /\ pc[r] = "loaded"
  /\ \E down \in BOOLEAN :
       LET got == get_hash_list(registry, down)
       IN /\ generated_hash' = [generated_hash EXCEPT ![r] = generate_hash(input_data[r])]
          /\ history' = [history EXCEPT ![r].observed =
                           IF down THEN "no reply" ELSE Observed(registry),
                                        ![r].fetched_version = version]
          /\ IF got.raised
             THEN /\ pc' = [pc EXCEPT ![r] = "failed"]
                  /\ error' = [error EXCEPT ![r] = got.error]
                  /\ UNCHANGED existing_hashes
             ELSE /\ pc' = [pc EXCEPT ![r] = "fetched"]
                  /\ existing_hashes' = [existing_hashes EXCEPT ![r] = got.value]
                  /\ UNCHANGED error
  /\ UNCHANGED <<registry, version, serial, config, input_dir, input_data,
                 proof_response>>

\* A put that is refused when the registry changed since the fetch, the run
\* then answering 0.0.
CheckAndUpdateGuarded(r) ==
  /\ pc[r] = "fetched"
  /\ pc' = [pc EXCEPT ![r] = "scoring"]
  /\ IF InList(generated_hash[r], existing_hashes[r])
        \/ history[r].fetched_version # version
     THEN /\ proof_response' = [proof_response EXCEPT ![r] =
                                  [dlp_id |-> 8, uniqueness |-> 0]]
          /\ UNCHANGED <<registry, version, history>>
     ELSE /\ registry' = update_hash_list(existing_hashes[r], generated_hash[r])
          /\ version' = version + 1
          /\ history' = [history EXCEPT ![r].put_version = version + 1]
          /\ proof_response' = [proof_response EXCEPT ![r] =
                                  [dlp_id |-> 8, uniqueness |-> 1000]]
  /\ UNCHANGED <<serial, config, input_dir, input_data, generated_hash,
                 existing_hashes, error>>

\* An append onto the list the registry holds at the moment of the put.
CheckAndUpdateMerging(r) ==
  /\ pc[r] = "fetched"
  /\ pc' = [pc EXCEPT ![r] = "scoring"]
  /\ IF InList(generated_hash[r], existing_hashes[r])
     THEN /\ proof_response' = [proof_response EXCEPT ![r] =
                                  [dlp_id |-> 8, uniqueness |-> 0]]
          /\ UNCHANGED <<registry, version, history>>
     ELSE /\ registry' = update_hash_list(get_hash_list(registry, FALSE).value,
                                          generated_hash[r])
          /\ version' = version + 1
          /\ history' = [history EXCEPT ![r].put_version = version + 1]
          /\ proof_response' = [proof_response EXCEPT ![r] =
                                  [dlp_id |-> 8, uniqueness |-> 1000]]
  /\ UNCHANGED <<serial, config, input_dir, input_data, generated_hash,
                 existing_hashes, error>>

\* calc_uniqueness from the membership test on, and the assignment of
\* generate line 41 (proof.py 79-83, 41).  put_object either stores the
\* document and answers, or fails before storing it, or stores it and fails
\* on the way back; a failure is logged and re-raised.
CheckAndUpdate(r) ==
  /\ pc[r] = "fetched"
  /\ IF InList(generated_hash[r], existing_hashes[r])
     THEN /\ pc' = [pc EXCEPT ![r] = "scoring"]
          /\ proof_response' = [proof_response EXCEPT ![r] =
                                  [dlp_id |-> 8, uniqueness |-> 0]]
          /\ UNCHANGED <<registry, version, history, error>>
     ELSE \E outcome \in {"stored", "refused", "reply lost"} :
            /\ IF outcome = "refused"
               THEN UNCHANGED <<registry, version, history>>
               ELSE /\ registry' = update_hash_list(existing_hashes[r],
                                                    generated_hash[r])
                    /\ version' = version + 1
                    /\ history' = [history EXCEPT ![r].put_version = version + 1]
            /\ IF outcome = "stored"
               THEN /\ pc' = [pc EXCEPT ![r] = "scoring"]
                    /\ proof_response' = [proof_response EXCEPT ![r] =
                                            [dlp_id |-> 8, uniqueness |-> 1000]]
                    /\ UNCHANGED error
               ELSE /\ pc' = [pc EXCEPT ![r] = "failed"]
                    /\ error' = [error EXCEPT ![r] =
                                   IF outcome = "refused"
                                   THEN "EndpointConnectionError"
                                   ELSE "ReadTimeoutError"]
                    /\ UNCHANGED proof_response
  /\ UNCHANGED <<serial, config, input_dir, input_data, generated_hash,
                 existing_hashes>>

\* The rest of generate: ownership, authenticity, quality, score, valid and the
\* attribute maps (proof.py 42-68).
Score(r) ==
  /\ pc[r] = "scoring"
  /\ LET ownership == calc_ownership(config[r], input_data[r])
         quality_data == calc_quality(input_data[r])
         uniqueness == proof_response[r].uniqueness
     IN IF ownership.raised
        THEN /\ pc' = [pc EXCEPT ![r] = "failed"]
             /\ error' = [error EXCEPT ![r] = ownership.error]
             /\ UNCHANGED proof_response
        ELSE /\ pc' = [pc EXCEPT ![r] = "done"]
             /\ proof_response' = [proof_response EXCEPT ![r] =
                  [dlp_id |-> 8,
                   uniqueness |-> uniqueness,
                   ownership |-> ownership.value,
                   authenticity |-> calc_authenticity(input_data[r]),
                   quality |-> quality_data.quality_score,
                   \* round(0.6 * quality + 0.4 * ownership, 3)
                   score |-> Round3(Frac(6 * quality_data.quality_score
                                           + 4 * ownership.value, 10000)),
                   valid |-> (uniqueness = 1000),
                   attributes |->
                     [stats |-> quality_data.stats,
                      messages_count |-> quality_data.stats.total_messages,
                      component_scores |-> quality_data.component_scores]]]
             /\ UNCHANGED error
  /\ UNCHANGED <<registry, version, serial, config, input_dir, input_data,
                 generated_hash, existing_hashes, history>>

Next == \E r \in Runs : LoadInput(r) \/ FetchHashes(r) \/ CheckAndUpdate(r) \/ Score(r)


(***************************************************************************)
(* The inputs of the model: records, directory listings, registry          *)
(* documents and configurations.                                           *)
(***************************************************************************)
\* "2024-01-DDT00:00:SS"
IsoDate(day, second) ==
  PyStrOf(<<"2", "0", "2", "4", "-", "0", "1", "-">> \o TwoDigits(day)
            \o <<"T", "0", "0", ":", "0", "0", ":">> \o TwoDigits(second))
DateOnly == PyStrOf(<<"2", "0", "2", "4", "-", "0", "1", "-", "0", "3">>)

Hi == PyStrOf(<<"h", "i">>)
From42 == PyStrOf(<<"f", "r", "o", "m", " ", "4", "2">>)
Empty == PyStrOf(<<>>)

RecordA == [type |-> AiChat, messages |-> <<[text |-> From42, date |-> IsoDate(1, 0)]>>]
RecordB == [type |-> GroupChat, messages |-> <<>>]
\* The two messages of the quality scenario.
RecordExample ==
  [type |-> AiChat,
   messages |-> <<[text |-> Hi, date |-> IsoDate(1, 0)],
                  [text |-> Empty, date |-> IsoDate(3, 0)]>>]
RecordNull == [type |-> PyNone, messages |-> <<[text |-> Hi, date |-> IsoDate(1, 0)]>>]

\* The messages the quality records are built from.
Dates == {IsoDate(1, 0), IsoDate(2, 0), IsoDate(2, 1), IsoDate(32, 0)}
MessageKinds ==
  {[text |-> Hi, date |-> d] : d \in Dates}
    \cup {[text |-> Empty, date |-> d] : d \in Dates}
    \cup {[text |-> Hi, date |-> d, reply_to_message_id |-> PyInt(7)] :
            d \in {IsoDate(2, 1), IsoDate(32, 0)}}
    \cup {[date |-> DateOnly, reply_to_message_id |-> PyInt(0)],
          [text |-> Hi, reply_to_message_id |-> PyNone]}

MessageSeqs == UNION {[1..n -> MessageKinds] : n \in 0..MaxMsgs}

\* n messages, the first k with an unparseable date, the rest two days apart.
LongMessages(n, k, replying) ==
  [i \in 1..n |->
     LET date == IF i <= k THEN IsoDate(32, 0) ELSE IsoDate(2 * (i - k) - 1, 0)
     IN IF replying
        THEN [text |-> Hi, date |-> date, reply_to_message_id |-> PyInt(7)]
        ELSE [text |-> Hi, date |-> date]]

QualityRecords ==
  {[type |-> AiChat, messages |-> ms] : ms \in MessageSeqs}
    \cup {[type |-> AiChat, messages |-> LongMessages(n, k, b)] :
            n \in (MaxMsgs + 1)..MaxLong, k \in 0..MaxLong, b \in BOOLEAN}
    \cup {[type |-> PersonalChat], RecordA, RecordB, RecordExample}

BotKey == PyStrOf(<<"b", "o", "t">>)
OtherKey == PyStrOf(<<"e", "v", "e">>)

\* The digest the identity provider (or whoever holds bot_key) puts in `hash`.
SignedBy(bot_key, fields) ==
  Hmac(Hmac("WebAppData", bot_key.v),
       DataCheckString(DictOfFields(fields, Len(fields))))
\* A digest with one character changed.
Tampered(digest) == [alg |-> digest.alg, key |-> digest.key, msg |-> digest.msg,
                     changed |-> TRUE]

AuthDate == Field("auth_date", Text("1700000000"))
UserTexts == {"", NotJson, JsonNumber, JsonNull, JsonUserNoId, JsonUserNullId,
              JsonUser42, JsonUser7}
UnsignedFields ==
  {<<AuthDate>>} \cup {<<AuthDate, Field("user", Text(u))>> : u \in UserTexts}

HashesFor(fields) ==
  {SignedBy(BotKey, fields), SignedBy(OtherKey, fields),
   Tampered(SignedBy(BotKey, fields)), SignedBy(BotKey, <<AuthDate>>),
   Text("0123abcd")}

InitDatas ==
  {PyNone, QueryString(<<>>)}
    \cup {QueryString(f) : f \in UnsignedFields}
    \cup UNION {{QueryString(Append(f, Field("hash", h))) : h \in HashesFor(f)} :
                  f \in UnsignedFields}

GenuineInitData ==
  LET f == <<AuthDate, Field("user", Text(JsonUser42))>>
  IN QueryString(Append(f, Field("hash", SignedBy(BotKey, f))))

GenuineConfig == [telegram_bot_access_key |-> BotKey, tg_init_data |-> GenuineInitData]
Configs == [telegram_bot_access_key : {PyNone, BotKey}, tg_init_data : InitDatas]

EmptyRegistry == Object([hash_list |-> <<>>])
\* A document that carries no hash_list member.
BareRegistry == Object([created |-> Text("2024-01-01")])

OwnershipRecords == {RecordA, RecordB, RecordNull}
Files == {TextFile, NullFile, UnreadableFile} \cup {JsonFile(x) : x \in OwnershipRecords}
Listings == UNION {[1..n -> Files] : n \in 0..MaxFiles}

Fresh(active) ==
  /\ version = 0
  /\ pc = [r \in Runs |-> IF r \in active THEN "start" ELSE "off"]
  /\ input_data = [r \in Runs |-> NoInput]
  /\ generated_hash = [r \in Runs |-> Text("")]
  /\ existing_hashes = [r \in Runs |-> <<>>]
  /\ proof_response = [r \in Runs |-> [dlp_id |-> 8]]
  /\ error = [r \in Runs |-> "none"]
  /\ history = [r \in Runs |-> NoHistory]

\* The submissions of the multi-run specifications: a record and a bot key.
Submissions ==
  <<[record |-> RecordA, key |-> BotKey],
    [record |-> RecordB, key |-> BotKey],
    [record |-> RecordA, key |-> PyNone]>>

\* The runs are interchangeable, so they are numbered in the order of their
\* submissions; every interleaving of them remains.
Assignments(kinds) ==
  {f \in [Runs -> kinds] : \A r \in Runs : r + 1 \in Runs => f[r] <= f[r + 1]}

Submitted(f) ==
  /\ config = [r \in Runs |->
                 [telegram_bot_access_key |-> Submissions[f[r]].key,
                  tg_init_data |-> GenuineInitData]]
  /\ input_dir = [r \in Runs |-> <<JsonFile(Submissions[f[r]].record)>>]

\* Concurrent runs on two records against a registry that is missing or holds
\* no fingerprint yet.
Init ==
  /\ Fresh(Runs)
  /\ serial = FALSE
  /\ registry \in {NoObject, BareRegistry}
  /\ \E f \in Assignments({1, 2}) : Submitted(f)

\* Runs launched one after another, with or without a bot key.
InitSerial ==
  /\ Fresh(Runs)
  /\ serial = TRUE
  /\ registry = EmptyRegistry
  /\ \E f \in Assignments({1, 2, 3}) : Submitted(f)

\* One run over every directory listing and every configuration.
InitOne ==
  /\ Fresh({1})
  /\ serial = TRUE
  /\ registry \in {NoObject, EmptyRegistry}
  /\ \E c \in Configs : config = [r \in Runs |-> IF r = 1 THEN c ELSE GenuineConfig]
  /\ \E listing \in Listings :
       input_dir = [r \in Runs |-> IF r = 1 THEN listing ELSE <<>>]

\* One run over every message sequence.
InitQuality ==
  /\ Fresh({1})
  /\ serial = TRUE
  /\ \E record \in QualityRecords :
       /\ input_dir = [r \in Runs |-> IF r = 1 THEN <<JsonFile(record)>> ELSE <<>>]
       /\ registry \in {EmptyRegistry} \cup
            (IF "messages" \in DOMAIN record /\ Len(record.messages) > MaxMsgs - 2
             THEN {} ELSE {Object([hash_list |-> <<generate_hash(record)>>])})
  /\ config = [r \in Runs |-> GenuineConfig]

Spec == Init /\ [][Next]_vars
SpecSerial == InitSerial /\ [][Next]_vars
SpecOne == InitOne /\ [][Next]_vars
SpecQuality == InitQuality /\ [][Next]_vars


(***************************************************************************)
(* Vocabulary of the properties.                                           *)
(***************************************************************************)
\* calc_uniqueness has returned to generate.
UniquenessReturned(r) == "uniqueness" \in DOMAIN proof_response[r]
\* generate has returned its ProofResponse.
Returned(r) == pc[r] = "done"
\* The run died of an exception after the uniqueness step.
AbortedAfterUniqueness(r) == pc[r] = "failed" /\ UniquenessReturned(r)
Wrote(r) == history[r].put_version > 0
\* q fetched the registry after p's put had replaced it.
FetchedAfterPutOf(q, p) ==
  Wrote(p) /\ history[q].fetched_version >= history[p].put_version
\* q fetched the registry before p replaced it, if p ever did.
FetchedBeforePutOf(q, p) ==
  ~Wrote(p) \/ history[q].fetched_version < history[p].put_version
\* The fingerprints of the stored document.
StoredHashes == DictGet(registry.body, "hash_list", <<>>)
\* Nobody has replaced the registry since r fetched it.
UntouchedSinceFetchOf(r) == version = history[r].fetched_version

(***************************************************************************)
(* C1.  Runs one after another: once a run on record R has returned        *)
(* uniqueness 1.0, every later run on the same record R gets uniqueness    *)
(* 0.0, writes nothing, and leaves the stored list as it fetched it.       *)
(***************************************************************************)
C1_ResubmissionIsDuplicate ==
  \A p, q \in Runs :
    ( /\ p # q
      /\ Returned(p) /\ proof_response[p].uniqueness = 1000
      /\ UniquenessReturned(q)
      /\ FetchedAfterPutOf(q, p)
      /\ input_data[q] = input_data[p] )
    => /\ proof_response[q].uniqueness = 0
       /\ ~Wrote(q)
       /\ UntouchedSinceFetchOf(q) => StoredHashes = existing_hashes[q]

C1_Witness ==
  \E p, q \in Runs :
    /\ p # q
    /\ Returned(p) /\ proof_response[p].uniqueness = 1000
    /\ Returned(q) /\ FetchedAfterPutOf(q, p)
    /\ input_data[q] = input_data[p]
    /\ proof_response[q].uniqueness = 0
    /\ StoredHashes = existing_hashes[q]

(***************************************************************************)
(* C2.  Two runs on the same record that both fetch a list without its     *)
(* fingerprint before either appends both append and are both told         *)
(* uniqueness 1.0, hence valid.                                            *)
(***************************************************************************)
C2_BothToldUnique ==
  \A p, q \in Runs :
    ( /\ p # q
      /\ Returned(p) /\ Returned(q)
      /\ generated_hash[p] = generated_hash[q]
      /\ ~InList(generated_hash[p], existing_hashes[p])
      /\ ~InList(generated_hash[q], existing_hashes[q])
      /\ FetchedBeforePutOf(p, q) /\ FetchedBeforePutOf(q, p) )
    => /\ proof_response[p].uniqueness = 1000 /\ proof_response[q].uniqueness = 1000
       /\ proof_response[p].valid /\ proof_response[q].valid
       /\ Wrote(p) /\ Wrote(q)

C2_Witness ==
  \E p, q \in Runs :
    /\ p # q
    /\ Returned(p) /\ Returned(q)
    /\ input_data[p] = input_data[q]
    /\ Wrote(p) /\ Wrote(q)
    /\ history[p].fetched_version < history[q].put_version
    /\ history[q].fetched_version < history[p].put_version
    /\ proof_response[p].uniqueness = 1000 /\ proof_response[q].uniqueness = 1000
    /\ proof_response[p].valid /\ proof_response[q].valid

(***************************************************************************)
(* C3 as stated: a run that finds no object under the registry key gets    *)
(* the empty list and goes on.                                             *)
(***************************************************************************)
C3_MissingObjectIsEmptyList ==
  \A r \in Runs :
    history[r].observed = "no object"
      => pc[r] # "failed" /\ existing_hashes[r] = <<>>

(***************************************************************************)
(* C3 amended.  A run that finds a document without a hash_list member     *)
(* gets the empty list, is told uniqueness 1.0 and writes the list holding *)
(* its fingerprint alone; a run that finds no object under the key dies of *)
(* the store's NoSuchKey error, like a run whose fetch fails in transport, *)
(* before any uniqueness is computed and without writing.                  *)
(***************************************************************************)
C3_MissingMemberIsEmptyList ==
  \A r \in Runs :
    /\ history[r].observed = "no hash_list" =>
         /\ existing_hashes[r] = <<>>
         /\ pc[r] = "failed" => error[r] # "NoSuchKey" /\ error[r] # "KeyError"
         /\ UniquenessReturned(r) =>
              /\ proof_response[r].uniqueness = 1000
              /\ Wrote(r)
              /\ version = history[r].put_version =>
                   registry = Object([hash_list |-> <<generated_hash[r]>>])
    /\ history[r].observed = "no object" =>
         /\ pc[r] = "failed" /\ error[r] = "NoSuchKey"
         /\ ~UniquenessReturned(r) /\ ~Wrote(r)
    /\ history[r].observed = "no reply" =>
         /\ pc[r] = "failed" /\ error[r] = "EndpointConnectionError"
         /\ ~UniquenessReturned(r) /\ ~Wrote(r)

C3_Witness ==
  \E r \in Runs :
    /\ history[r].observed = "no hash_list"
    /\ Returned(r)
    /\ proof_response[r].uniqueness = 1000
    /\ registry = Object([hash_list |-> <<generated_hash[r]>>])

(***************************************************************************)
(* C9.  Two runs on different records that both fetch before either        *)
(* appends are both told uniqueness 1.0, yet once the second has appended  *)
(* the registry holds the second fingerprint and not the first; a run that *)
(* then resubmits the first record and fetches that registry is told       *)
(* uniqueness 1.0 again.                                                   *)
(***************************************************************************)
LostUpdate(p, q) ==
  /\ p # q
  /\ UniquenessReturned(p) /\ proof_response[p].uniqueness = 1000
  /\ UniquenessReturned(q) /\ proof_response[q].uniqueness = 1000
  /\ generated_hash[p] # generated_hash[q]
  /\ Wrote(p) /\ Wrote(q)
  /\ history[p].fetched_version < history[p].put_version
  /\ history[q].fetched_version < history[p].put_version
  /\ history[p].put_version < history[q].put_version
  /\ ~InList(generated_hash[p], existing_hashes[q])

C9_LostFingerprint ==
  \A p, q \in Runs :
    LostUpdate(p, q) =>
      /\ version = history[q].put_version =>
           /\ ~InList(generated_hash[p], StoredHashes)
           /\ InList(generated_hash[q], StoredHashes)
      /\ \A s \in Runs :
           ( /\ s # p /\ s # q
             /\ input_data[s] = input_data[p]
             /\ UniquenessReturned(s)
             /\ history[s].fetched_version = history[q].put_version )
           => proof_response[s].uniqueness = 1000

C9_Witness ==
  \E p, q, s \in Runs :
    /\ LostUpdate(p, q)
    /\ s # p /\ s # q
    /\ Returned(p) /\ Returned(q) /\ Returned(s)
    /\ input_data[s] = input_data[p]
    /\ history[s].fetched_version = history[q].put_version
    /\ proof_response[s].uniqueness = 1000 /\ proof_response[s].valid

(***************************************************************************)
(* C10.  In a run whose fingerprint is new the registry append is done     *)
(* before ownership, authenticity and quality start.  So a run that dies   *)
(* after the uniqueness step (no bot key) has returned no result and has   *)
(* already stored its fingerprint, and a later run on the same record,     *)
(* launched after it, returns uniqueness 0.0 and valid = false.            *)
(***************************************************************************)
C10_AppendPrecedesScoring ==
  \A p \in Runs :
    /\ (pc[p] = "scoring" /\ proof_response[p].uniqueness = 1000) =>
         /\ Wrote(p)
         /\ DOMAIN proof_response[p] = {"dlp_id", "uniqueness"}
    /\ AbortedAfterUniqueness(p) =>
         /\ DOMAIN proof_response[p] = {"dlp_id", "uniqueness"}
         /\ proof_response[p].uniqueness = 1000 => Wrote(p)
         /\ \A q \in Runs :
              ( /\ q # p
                /\ Returned(q)
                /\ FetchedAfterPutOf(q, p)
                /\ input_data[q] = input_data[p] )
              => proof_response[q].uniqueness = 0 /\ ~proof_response[q].valid

C10_Witness ==
  \E p, q \in Runs :
    /\ p # q
    /\ AbortedAfterUniqueness(p) /\ error[p] = "AttributeError"
    /\ config[p].telegram_bot_access_key = PyNone
    /\ proof_response[p].uniqueness = 1000
    /\ Returned(q) /\ FetchedAfterPutOf(q, p)
    /\ config[q].telegram_bot_access_key = BotKey
    /\ input_data[q] = input_data[p]
    /\ proof_response[q].uniqueness = 0 /\ ~proof_response[q].valid


(***************************************************************************)
(* C4 as stated: with a bot key configured calc_ownership never raises,    *)
(* whatever the init data: a run that got past the uniqueness step         *)
(* returns its result.                                                     *)
(***************************************************************************)
C4_OwnershipNeverRaises ==
  \A r \in Runs :
    (config[r].telegram_bot_access_key # PyNone /\ UniquenessReturned(r))
      => pc[r] # "failed"

(***************************************************************************)
(* C5 as stated: ownership is 1.0 only if the recomputed digest equals the *)
(* `hash` value, a `user` field is present, and that field is JSON with an *)
(* `id` whose string form occurs in the stringified record.                *)
(***************************************************************************)
SignedIdInRecord(r) ==
  LET parsed_data == parse_qsl_dict(config[r].tg_init_data)
      fields == IF config[r].tg_init_data.py = "None" THEN <<>>
                ELSE config[r].tg_init_data.fields
      user == json_loads(parsed_data.user.text)
  IN /\ "hash" \in DOMAIN parsed_data
     /\ parsed_data.hash =
          SignedBy(config[r].telegram_bot_access_key,
                   SelectSeq(fields, LAMBDA f : f.name # "hash"))
     /\ "user" \in DOMAIN parsed_data
     /\ ~user.raised /\ user.type = "dict"
     /\ "id" \in DOMAIN user.value
     /\ IsSubstring(PyStr(user.value.id), StrInput(input_data[r]))

C5_OwnershipOnlyIfSignedId ==
  \A r \in Runs :
    Returned(r) =>
      (proof_response[r].ownership = 1000 => SignedIdInRecord(r))
        /\ (~SignedIdInRecord(r) => proof_response[r].ownership = 0)

(***************************************************************************)
(* C7 as stated: the files are tried in listing order, a file that is not  *)
(* JSON is skipped, the first file that parses is the record used and no   *)
(* later file is opened, and the run ends in the no-valid-input error      *)
(* exactly when no file of the listing parses.  (Runs that die of a read   *)
(* error or of the empty directory are left aside.)                        *)
(***************************************************************************)
FirstParsing(listing) ==
  CHOOSE i \in 1..Len(listing) :
    Parses(listing[i]) /\ \A j \in 1..(i - 1) : ~Parses(listing[j])

C7_NoValidInputIffNoneParses ==
  \A r \in Runs :
    (pc[r] \notin {"off", "start"} /\ error[r] \notin {"OSError", "FileNotFoundError"})
      => LET listing == input_dir[r]
             none == \A i \in 1..Len(listing) : ~Parses(listing[i])
         IN /\ (error[r] = "ValueError: No valid JSON files found") <=> none
            /\ ~none => /\ history[r].opened = FirstParsing(listing)
                        /\ input_data[r] = listing[FirstParsing(listing)].value


(***************************************************************************)
(* C6.  In every returned result uniqueness, ownership, authenticity,      *)
(* quality and the component scores content, time and interaction lie in   *)
(* [0, 1]; with no messages the three components and quality are 0; when   *)
(* every date is malformed time is 0.                                      *)
(***************************************************************************)
InUnit(x) == x \in 0..1000

C6_ScoresInUnitInterval ==
  \A r \in Runs :
    Returned(r) =>
      LET result == proof_response[r]
          scores == result.attributes.component_scores
          stats == result.attributes.stats
      IN /\ InUnit(result.uniqueness) /\ InUnit(result.ownership)
         /\ InUnit(result.authenticity) /\ InUnit(result.quality)
         /\ InUnit(scores.content) /\ InUnit(scores.time) /\ InUnit(scores.interaction)
         /\ stats.total_messages = 0 =>
              /\ scores.content = 0 /\ scores.time = 0 /\ scores.interaction = 0
              /\ result.quality = 0
         /\ (stats.total_messages > 0 /\ stats.invalid_dates = stats.total_messages)
              => scores.time = 0

\* A result where both caps have acted: the time penalty exceeds 1 and there
\* are more replies than 0.3 per message.
C6_Witness ==
  \E r \in Runs :
    /\ Returned(r)
    /\ LET stats == proof_response[r].attributes.stats
           scores == proof_response[r].attributes.component_scores
       IN /\ stats.large_gaps * stats.total_messages + 10 * stats.invalid_dates
               > 10 * stats.total_messages
          /\ 10 * stats.replies > 3 * stats.total_messages
          /\ scores.time = 0 /\ scores.interaction = 1000

(***************************************************************************)
(* C8.  After the scan, invalid_dates is the number of messages whose date *)
(* does not parse; large_gaps is the number of messages with a valid date  *)
(* more than 86400 seconds after the date of the nearest earlier message   *)
(* with a valid date; empty_messages and replies count the messages with   *)
(* an absent or empty text and with a truthy reply_to_message_id.  The two *)
(* messages of 2024-01-01 and 2024-01-03, the second with an empty text,   *)
(* give total 2, empty 1, large_gaps 1, invalid 0, replies 0.              *)
(***************************************************************************)
ValidDate(msg) == ~strptime(msg).raised

ExpectedStats(msgs) ==
  LET n == Len(msgs)
  IN [total_messages |-> n,
      empty_messages |->
        Cardinality({i \in 1..n : "text" \notin DOMAIN msgs[i]
                                    \/ msgs[i].text \in {PyNone, Empty}}),
      invalid_dates |-> Cardinality({i \in 1..n : ~ValidDate(msgs[i])}),
      large_gaps |->
        Cardinality({i \in 1..n :
          /\ ValidDate(msgs[i])
          /\ \E j \in 1..(i - 1) :
               /\ ValidDate(msgs[j])
               /\ \A k \in (j + 1)..(i - 1) : ~ValidDate(msgs[k])
               /\ total_seconds(strptime(msgs[i]), strptime(msgs[j])) > 86400}),
      replies |->
        Cardinality({i \in 1..n : /\ "reply_to_message_id" \in DOMAIN msgs[i]
                                  /\ Truthy(msgs[i].reply_to_message_id)})]

C8_StatsCountMessages ==
  \A r \in Runs :
    Returned(r) =>
      /\ proof_response[r].attributes.stats
           = ExpectedStats(DictGet(input_data[r], "messages", <<>>))
      /\ input_data[r] = RecordExample =>
           proof_response[r].attributes.stats
             = [total_messages |-> 2, empty_messages |-> 1, invalid_dates |-> 0,
                large_gaps |-> 1, replies |-> 0]

\* A gap counted across a message whose date does not parse.
C8_Witness ==
  \E r \in Runs :
    /\ Returned(r)
    /\ DictGet(input_data[r], "messages", <<>>)
         = <<[text |-> Hi, date |-> IsoDate(1, 0)],
             [text |-> Empty, date |-> IsoDate(32, 0)],
             [text |-> Hi, date |-> IsoDate(2, 1)]>>
    /\ proof_response[r].attributes.stats
         = [total_messages |-> 3, empty_messages |-> 1, invalid_dates |-> 1,
            large_gaps |-> 1, replies |-> 0]


=============================================================================
